---- MODULE Spec2Model ----
(***************************************************************************)
(* Model of the provisioning back end in src/src/app.js: the Express       *)
(* handlers for buckets (create, delete) and Lightsail instances (create), *)
(* run against an object-storage provider and a compute provider.          *)
(*                                                                         *)
(* Each HTTP request is a slot of Req.  A handler is an async function:    *)
(* the code between two awaits runs without interruption on the event     *)
(* loop, so one action is one remote call (issued, served by the provider, *)
(* answered) together with the handler code up to the next remote call.    *)
(* Requests interleave at the awaits.  A remote call may fail whatever the *)
(* provider's state (GenericKinds) or because of it (NotFound, ...).       *)
(*                                                                         *)
(* Request bodies carry strings: a string is a tuple of one-character      *)
(* strings, so that the pattern test and startsWith are computed.          *)
(* uuidv4() is taken to return a token it has not returned before.         *)
(***************************************************************************)
EXTENDS Integers, Sequences, FiniteSets, TLC

\* Number of HTTP requests the server receives in one run.
NumReq == 2

Req == 1..NumReq

\* The quantifier {3,63} of bucketNameRegex.
MinNameLen == 3
MaxNameLen == 63

VARIABLES
  kind,      \* kind[r]: which endpoint request r hit ("none" before it arrives)
  input,     \* input[r]: req.body / req.params of request r
  pc,        \* pc[r]: the remote call request r issues next, or "idle"/"done"
  calls,     \* calls[r]: the remote calls r has issued, in order, with outcomes
  err,       \* err[r]: the error caught by the handler's catch block
  kpName,    \* kpName[r]: const keyPairName of the instance handler
  privKey,   \* privKey[r]: let privateKey of the instance handler
  resp,      \* resp[r]: the HTTP response sent for r
  buckets,   \* storage provider: the buckets by name
  deleted,   \* storage provider: how many times each name has been deleted
  instances, \* compute provider: names of the instances
  keyPairs,  \* compute provider: names of the registered key pairs
  uuids,     \* how many tokens uuidv4() has handed out
  log        \* the private keys written to the process log (console.log)

vars == <<kind, input, pc, calls, err, kpName, privKey, resp,
          buckets, deleted, instances, keyPairs, uuids, log>>

storageVars == <<buckets, deleted>>
computeVars == <<instances, keyPairs, uuids, log, kpName, privKey>>

-----------------------------------------------------------------------------
(* Strings *)

Lower == {"a","b","c","d","e","f","g","h","i","j","k","l","m",
          "n","o","p","q","r","s","t","u","v","w","x","y","z"}
Digit == {"0","1","2","3","4","5","6","7","8","9"}

RECURSIVE Rep(_, _)
Rep(c, k) == IF k = 0 THEN <<>> ELSE <<c>> \o Rep(c, k - 1)

\* String.prototype.startsWith
StartsWith(s, p) == Len(s) >= Len(p) /\ SubSeq(s, 1, Len(p)) = p

\* The test without its last assertion, (?<!-).
BucketNameRegexTest_NoLookbehind(s) ==
  /\ Len(s) >= MinNameLen /\ Len(s) <= MaxNameLen
  /\ ~ \E i \in 1..(Len(s) - 1) : s[i] = "." /\ s[i+1] = "."
  /\ (Len(s) > 0 => s[1] # "-")
  /\ Len(s) >= 1
  /\ \A i \in 1..Len(s) : s[i] \in Lower \cup Digit \cup {"-"}

\* bucketNameRegex.test(s) for
\*   /^(?=.{3,63}$)(?!.*\.\.)(?!-)[a-z0-9-]+(?<!-)$/
\* evaluated assertion by assertion.
BucketNameRegexTest(s) ==
  /\ Len(s) >= MinNameLen /\ Len(s) <= MaxNameLen           \* (?=.{3,63}$)
  /\ ~ \E i \in 1..(Len(s) - 1) : s[i] = "." /\ s[i+1] = "." \* (?!.*\.\.)
  /\ (Len(s) > 0 => s[1] # "-")                              \* (?!-)
  /\ Len(s) >= 1                                             \* [a-z0-9-]+
  /\ \A i \in 1..Len(s) : s[i] \in Lower \cup Digit \cup {"-"}
  /\ s[Len(s)] # "-"                                         \* (?<!-)$

\* The bucket names that requests carry.
BucketNameInputs ==
  { <<"a","-","1">>,
    <<>>, <<"a","b">>, Rep("a", MaxNameLen + 1),
    <<"-","a","b">>, <<"a","b","-">>, <<"a",".","b">>, <<"a",".",".","b">>,
    <<"A","b","c">>, <<"a","_","b">> }

\* The names the storage provider holds buckets for.
ProviderNames == { n \in BucketNameInputs : BucketNameRegexTest(n) }

-----------------------------------------------------------------------------
(* Storage provider *)

ObjectKeys == {"index.html", "error.html", "x.txt"}

NoBucket == [exists |-> FALSE, owner |-> 0, pab |-> FALSE, policy |-> FALSE,
             website |-> FALSE, cors |-> FALSE, objects |-> {}]

\* A bucket right after CreateBucket by request r (owner 0: made elsewhere).
FreshBucket(r) == [NoBucket EXCEPT !.exists = TRUE, !.owner = r]

\* Failures a remote call can meet whatever the provider's state.
GenericKinds == {"AccessDenied"}

BucketExists(n) == n \in ProviderNames /\ buckets[n].exists

HeadBucketOutcomes(n) ==
  (IF BucketExists(n) THEN {"ok"} ELSE {"NotFound"}) \cup GenericKinds

CreateBucketOutcomes(n) ==
  (IF BucketExists(n) THEN {"BucketAlreadyExists", "BucketAlreadyOwnedByYou"}
                      ELSE {"ok"}) \cup GenericKinds

\* PutPublicAccessBlock, PutBucketPolicy, PutBucketWebsite, PutBucketCors,
\* PutObject, GetBucketLocation, ListObjectsV2
BucketOpOutcomes(n) ==
  (IF BucketExists(n) THEN {"ok"} ELSE {"NoSuchBucket"}) \cup GenericKinds

DeleteBucketOutcomes(n) ==
  (IF ~BucketExists(n) THEN {"NoSuchBucket"}
   ELSE IF buckets[n].objects # {} THEN {"BucketNotEmpty"}
   ELSE {"ok"}) \cup GenericKinds

\* The record of one remote call in calls[r].
Call(op, target, arg, result) ==
  [op |-> op, target |-> target, arg |-> arg, result |-> result,
   existed |-> BucketExists(target),
   gen |-> IF target \in ProviderNames THEN deleted[target] ELSE 0]

-----------------------------------------------------------------------------
(* Responses *)

\* A JavaScript value that may be undefined.
Absent == [set |-> FALSE, val |-> <<>>]
Val(v) == [set |-> TRUE, val |-> v]

\* !!x for a string or undefined: undefined and '' are falsy.
Truthy(x) == x.set /\ x.val # <<>>

\* a || b
Or(a, b) == IF Truthy(a) THEN a ELSE b

NoResp == [status |-> 0, errorType |-> "", error |-> "",
           keyPairName |-> Absent, privateKey |-> Absent, buckets |-> {}]

\* res.status(status).json({ errorType, error })
Response(status, errorType, error) ==
  [NoResp EXCEPT !.status = status, !.errorType = errorType, !.error = error]

\* errorType: error.name || 'UnknownError'
ErrorType(name) == IF name = "" THEN "UnknownError" ELSE name

-----------------------------------------------------------------------------
(* Compute provider and the instance requests' bodies *)

\* process.env.LIGHTSAIL_REGION
LightsailRegion == <<"e","u","1">>

InstanceNames == { <<"w","e","b">>, <<"d","b">> }

\* A body with the four fields present.
Body(name, zone) ==
  [instanceName |-> Val(name), blueprintId |-> Val(<<"b","p">>),
   bundleId |-> Val(<<"n","a","n","o">>), availabilityZone |-> Val(zone)]

GoodZone == LightsailRegion \o <<"a">>

\* The bodies that instance requests carry.
InstanceInputs ==
  { Body(<<"w","e","b">>, GoodZone), Body(<<"d","b">>, LightsailRegion) }
  \cup { Body(<<"w","e","b">>, z) :
           z \in { <<"e","u","2","a">>, <<"e","u">>,
                   <<"x">> \o LightsailRegion, <<>> } }
  \cup { [Body(<<"w","e","b">>, GoodZone) EXCEPT !.instanceName = Absent],
         [Body(<<"w","e","b">>, GoodZone) EXCEPT !.instanceName = Val(<<>>)],
         [Body(<<"w","e","b">>, GoodZone) EXCEPT !.blueprintId = Absent],
         [Body(<<"w","e","b">>, GoodZone) EXCEPT !.bundleId = Absent],
         [Body(<<"w","e","b">>, GoodZone) EXCEPT !.availabilityZone = Absent],
         [Body(<<"w","e","b">>, <<"e","u","2","a">>) EXCEPT !.bundleId = Absent] }

\* The name without its token.
KeyPairName_NoToken(token) == <<"my-app-", 0>>

\* const keyPairName = `my-app-${uuidv4()}`, for the token uuidv4() returned
KeyPairName(token) == <<"my-app-", token>>

\* The key material the provider makes for key pair k, plain and base64.
Pem(k) == <<"pem", k>>
B64(k) == <<"b64", k>>

\* The shapes of a CreateKeyPair result for key pair k.
KeyPairData(k) ==
  { [privateKey |-> Val(Pem(k)), privateKeyBase64 |-> Absent],
    [privateKey |-> Absent, privateKeyBase64 |-> Val(B64(k))],
    [privateKey |-> Val(Pem(k)), privateKeyBase64 |-> Val(B64(k))],
    [privateKey |-> Val(<<>>), privateKeyBase64 |-> Val(B64(k))],
    [privateKey |-> Val(<<>>), privateKeyBase64 |-> Absent],
    [privateKey |-> Absent, privateKeyBase64 |-> Absent] }

GetInstanceOutcomes(n) ==
  (IF n \in instances THEN {"ok"} ELSE {"NotFoundException", "DoesNotExist"})
  \cup GenericKinds

CreateKeyPairOutcomes(k) ==
  (IF k \in keyPairs THEN {"InvalidInputException"} ELSE {"ok"})
  \cup GenericKinds

CreateInstancesOutcomes(n) ==
  (IF n \in instances THEN {"InvalidInputException"} ELSE {"ok"})
  \cup {"ServiceException"} \cup GenericKinds

-----------------------------------------------------------------------------
(* Requests *)

Init ==
  /\ kind = [r \in Req |-> "none"]
  /\ input = [r \in Req |-> <<>>]
  /\ pc = [r \in Req |-> "idle"]
  /\ calls = [r \in Req |-> <<>>]
  /\ err = [r \in Req |-> ""]
  /\ kpName = [r \in Req |-> <<>>]
  /\ privKey = [r \in Req |-> Absent]
  /\ resp = [r \in Req |-> NoResp]
  \* made before the run: no bucket, or one that is empty or holds a file
  /\ buckets \in [ProviderNames ->
                    {NoBucket, FreshBucket(0),
                     [FreshBucket(0) EXCEPT !.objects = {"x.txt"}]}]
  /\ deleted = [n \in ProviderNames |-> 0]
  \* made before the run: no instance, or the one named web
  /\ instances \in {{}, {<<"w","e","b">>}}
  /\ keyPairs = {}
  /\ uuids = 0
  /\ log = {}

\* Request r arrives: requests are numbered in their order of arrival.
Arrives(r) ==
  /\ pc[r] = "idle"
  /\ \A q \in Req : q < r => pc[q] # "idle"

\* r issued the remote call `call`.
Issue(r, call) == calls' = [calls EXCEPT ![r] = Append(@, call)]

\* r's handler sent `response` and returned.
Send(r, response) ==
  /\ resp' = [resp EXCEPT ![r] = response]
  /\ pc' = [pc EXCEPT ![r] = "done"]

\* r's handler goes on to its next remote call.
Goto(r, next) ==
  /\ pc' = [pc EXCEPT ![r] = next]
  /\ UNCHANGED resp

-----------------------------------------------------------------------------
(* POST /api/buckets *)

\* req.body?.bucketName || 'nombre_no_definido'
NombreNoDefinido ==
  <<"n","o","m","b","r","e","_","n","o","_","d","e","f","i","n","i","d","o">>
RollbackName(bucketName) ==
  IF bucketName = <<>> THEN NombreNoDefinido ELSE bucketName

\* The guard without its exemption of BucketAlreadyExists.
RollbackGuard_AnyError(bucketName, name) ==
  RollbackName(bucketName) # <<>>

\* if (bucketName && error.name !== 'BucketAlreadyExists')
RollbackGuard(bucketName, name) ==
  RollbackName(bucketName) # <<>> /\ name # "BucketAlreadyExists"

\* The catch block up to its remote call: the error `name` was thrown.
ProvisionCatch(r, name) ==
  /\ err' = [err EXCEPT ![r] = name]
  /\ IF RollbackGuard(input[r], name)
       THEN Goto(r, "rollback")
       ELSE Send(r, Response(500, ErrorType(name), "ErrorAlConfigurar"))

\* The request arrives; the name is tested before any remote call.
ProvisionBucketStart(r, n) ==
  /\ Arrives(r)
  /\ kind' = [kind EXCEPT ![r] = "provisionBucket"]
  /\ input' = [input EXCEPT ![r] = n]
  /\ IF ~BucketNameRegexTest(n)
       THEN Send(r, Response(400, "InvalidNameFormat", "FormatoInvalido"))
       ELSE Goto(r, "head")
  /\ UNCHANGED <<calls, err, storageVars, computeVars>>

\* await HeadBucket: found is 409, NotFound goes on, the rest is rethrown.
HeadBucketStep(r) ==
  /\ pc[r] = "head"
  /\ \E o \in HeadBucketOutcomes(input[r]) :
       /\ Issue(r, Call("HeadBucket", input[r], <<>>, o))
       /\ IF o = "ok"
            THEN Send(r, Response(409, "BucketAlreadyExists", "YaExiste"))
                 /\ UNCHANGED err
            ELSE IF o = "NotFound"
                 THEN Goto(r, "create") /\ UNCHANGED err
                 ELSE ProvisionCatch(r, o)
  /\ UNCHANGED <<kind, input, storageVars, computeVars>>

\* One configuration call on r's bucket: on success the bucket becomes
\* `after` and the handler goes on to `next`; a failure is caught.
ProvisionCall(r, op, o, after, next) ==
  /\ Issue(r, Call(op, input[r], <<>>, o))
  /\ IF o = "ok"
       THEN /\ buckets' = [buckets EXCEPT ![input[r]] = after]
            /\ Goto(r, next)
            /\ UNCHANGED err
       ELSE /\ UNCHANGED buckets
            /\ ProvisionCatch(r, o)
  /\ UNCHANGED <<kind, input, deleted, computeVars>>

\* CreateBucket whose rejection of an existing name is taken for success.
CreateBucketStep_IgnoresRejection(r) ==
  /\ pc[r] = "create"
  /\ \E o \in CreateBucketOutcomes(input[r]) :
       /\ Issue(r, Call("CreateBucket", input[r], <<>>, o))
       /\ IF o = "ok"
            THEN /\ buckets' = [buckets EXCEPT ![input[r]] = FreshBucket(r)]
                 /\ Goto(r, "pab")
                 /\ UNCHANGED err
            ELSE IF o \in {"BucketAlreadyExists", "BucketAlreadyOwnedByYou"}
                 THEN UNCHANGED <<buckets, err>> /\ Goto(r, "pab")
                 ELSE UNCHANGED buckets /\ ProvisionCatch(r, o)
  /\ UNCHANGED <<kind, input, deleted, computeVars>>

CreateBucketStep(r) ==
  /\ pc[r] = "create"
  /\ \E o \in CreateBucketOutcomes(input[r]) :
       ProvisionCall(r, "CreateBucket", o, FreshBucket(r), "pab")

\* PutPublicAccessBlock after which the policy call is left out.
PutPublicAccessBlockStep_SkipsPolicy(r) ==
  /\ pc[r] = "pab"
  /\ \E o \in BucketOpOutcomes(input[r]) :
       ProvisionCall(r, "PutPublicAccessBlock", o,
                     [buckets[input[r]] EXCEPT !.pab = TRUE], "website")

PutPublicAccessBlockStep(r) ==
  /\ pc[r] = "pab"
  /\ \E o \in BucketOpOutcomes(input[r]) :
       ProvisionCall(r, "PutPublicAccessBlock", o,
                     [buckets[input[r]] EXCEPT !.pab = TRUE], "policy")

PutBucketPolicyStep(r) ==
  /\ pc[r] = "policy"
  /\ \E o \in BucketOpOutcomes(input[r]) :
       ProvisionCall(r, "PutBucketPolicy", o,
                     [buckets[input[r]] EXCEPT !.policy = TRUE], "website")

PutBucketWebsiteStep(r) ==
  /\ pc[r] = "website"
  /\ \E o \in BucketOpOutcomes(input[r]) :
       ProvisionCall(r, "PutBucketWebsite", o,
                     [buckets[input[r]] EXCEPT !.website = TRUE], "cors")

PutBucketCorsStep(r) ==
  /\ pc[r] = "cors"
  /\ \E o \in BucketOpOutcomes(input[r]) :
       ProvisionCall(r, "PutBucketCors", o,
                     [buckets[input[r]] EXCEPT !.cors = TRUE], "index")

PutIndexStep(r) ==
  /\ pc[r] = "index"
  /\ \E o \in BucketOpOutcomes(input[r]) :
       ProvisionCall(r, "PutObject:index.html", o,
                     [buckets[input[r]] EXCEPT !.objects = @ \cup {"index.html"}],
                     "error")

\* The last call: on success the 201 is sent.
PutErrorStep(r) ==
  /\ pc[r] = "error"
  /\ \E o \in BucketOpOutcomes(input[r]) :
       /\ Issue(r, Call("PutObject:error.html", input[r], <<>>, o))
       /\ IF o = "ok"
            THEN /\ buckets' = [buckets EXCEPT
                                  ![input[r]].objects = @ \cup {"error.html"}]
                 /\ Send(r, Response(201, "", "creado"))
                 /\ UNCHANGED err
            ELSE /\ UNCHANGED buckets
                 /\ ProvisionCatch(r, o)
  /\ UNCHANGED <<kind, input, deleted, computeVars>>

\* The rollback whose own failure replaces the caught error in the response.
RollbackStep_ReportsDeleteError(r) ==
  /\ pc[r] = "rollback"
  /\ LET n == RollbackName(input[r]) IN
     \E o \in DeleteBucketOutcomes(n) :
       /\ Issue(r, Call("DeleteBucket", n, <<>>, o))
       /\ IF o = "ok"
            THEN /\ buckets' = [buckets EXCEPT ![n] = NoBucket]
                 /\ deleted' = [deleted EXCEPT ![n] = @ + 1]
                 /\ Send(r, Response(500, ErrorType(err[r]),
                                      "ErrorAlConfigurar"))
            ELSE /\ UNCHANGED storageVars
                 /\ Send(r, Response(500, ErrorType(o), "ErrorAlConfigurar"))
  /\ UNCHANGED <<kind, input, err, computeVars>>

\* The rest of the catch block: the rollback DeleteBucket, whose failure is
\* only logged, then the 500 with the caught error's name.
RollbackStep(r) ==
  /\ pc[r] = "rollback"
  /\ LET n == RollbackName(input[r]) IN
     \E o \in DeleteBucketOutcomes(n) :
       /\ Issue(r, Call("DeleteBucket", n, <<>>, o))
       /\ IF o = "ok"
            THEN /\ buckets' = [buckets EXCEPT ![n] = NoBucket]
                 /\ deleted' = [deleted EXCEPT ![n] = @ + 1]
            ELSE UNCHANGED storageVars
  /\ Send(r, Response(500, ErrorType(err[r]), "ErrorAlConfigurar"))
  /\ UNCHANGED <<kind, input, err, computeVars>>

-----------------------------------------------------------------------------
(* DELETE /api/buckets/:bucketName *)

\* let message, chosen by error.name
DeleteMessage(name) ==
  IF name = "NoSuchBucket" THEN "NoExiste"
  ELSE IF name = "AccessDenied" THEN "PermisosInsuficientes"
  ELSE "ErrorAlEliminar"

\* The catch block: a 500 with the caught error's name.
DeprovisionCatch(r, name) ==
  /\ err' = [err EXCEPT ![r] = name]
  /\ Send(r, Response(500, ErrorType(name), DeleteMessage(name)))

DeprovisionBucketStart(r, n) ==
  /\ Arrives(r)
  /\ kind' = [kind EXCEPT ![r] = "deprovisionBucket"]
  /\ input' = [input EXCEPT ![r] = n]
  /\ Goto(r, "location")
  /\ UNCHANGED <<calls, err, storageVars, computeVars>>

\* await GetBucketLocation; the region it returns is compared with nothing.
GetBucketLocationStep(r) ==
  /\ pc[r] = "location"
  /\ \E o \in BucketOpOutcomes(input[r]) :
       /\ Issue(r, Call("GetBucketLocation", input[r], <<>>, o))
       /\ IF o = "ok"
            THEN Goto(r, "list") /\ UNCHANGED err
            ELSE DeprovisionCatch(r, o)
  /\ UNCHANGED <<kind, input, storageVars, computeVars>>

\* The Contents of a ListObjectsV2 result: undefined for an empty bucket.
Contents(n) ==
  IF buckets[n].objects = {} THEN Absent ELSE Val(buckets[n].objects)

\* The emptiness test with a threshold of two objects.
ContentsNotEmpty_MoreThanTwo(contents) ==
  contents.set /\ Cardinality(contents.val) > 2

\* Contents?.length > 0
ContentsNotEmpty(contents) == contents.set /\ Cardinality(contents.val) > 0

\* ListObjectsV2 with no look at Contents: the delete always follows.
ListObjectsStep_NoEmptinessCheck(r) ==
  /\ pc[r] = "list"
  /\ \E o \in BucketOpOutcomes(input[r]) :
       IF o = "ok"
       THEN /\ Issue(r, Call("ListObjectsV2", input[r],
                              Contents(input[r]), o))
            /\ Goto(r, "delete")
            /\ UNCHANGED err
       ELSE /\ Issue(r, Call("ListObjectsV2", input[r], Absent, o))
            /\ DeprovisionCatch(r, o)
  /\ UNCHANGED <<kind, input, storageVars, computeVars>>

\* await ListObjectsV2: a bucket with objects is answered 400.
ListObjectsStep(r) ==
  /\ pc[r] = "list"
  /\ \E o \in BucketOpOutcomes(input[r]) :
       IF o = "ok"
       THEN /\ Issue(r, Call("ListObjectsV2", input[r],
                              Contents(input[r]), o))
            /\ IF ContentsNotEmpty(Contents(input[r]))
                 THEN Send(r, Response(400, "BucketNotEmpty", "ContieneArchivos"))
                 ELSE Goto(r, "delete")
            /\ UNCHANGED err
       ELSE /\ Issue(r, Call("ListObjectsV2", input[r], Absent, o))
            /\ DeprovisionCatch(r, o)
  /\ UNCHANGED <<kind, input, storageVars, computeVars>>

\* The success response sent with no DeleteBucket issued.
DeleteBucketStep_Skipped(r) ==
  /\ pc[r] = "delete"
  /\ Send(r, Response(200, "", "eliminado"))
  /\ UNCHANGED <<kind, input, calls, err, storageVars, computeVars>>

\* await DeleteBucket, then the success response.
DeleteBucketStep(r) ==
  /\ pc[r] = "delete"
  /\ \E o \in DeleteBucketOutcomes(input[r]) :
       /\ Issue(r, Call("DeleteBucket", input[r], <<>>, o))
       /\ IF o = "ok"
            THEN /\ buckets' = [buckets EXCEPT ![input[r]] = NoBucket]
                 /\ deleted' = [deleted EXCEPT ![input[r]] = @ + 1]
                 /\ Send(r, Response(200, "", "eliminado"))
                 /\ UNCHANGED err
            ELSE /\ UNCHANGED storageVars
                 /\ DeprovisionCatch(r, o)
  /\ UNCHANGED <<kind, input, computeVars>>

-----------------------------------------------------------------------------
(* GET /api/buckets *)

ListBucketsOutcomes == {"ok"} \cup GenericKinds

ListBucketsStart(r) ==
  /\ Arrives(r)
  /\ kind' = [kind EXCEPT ![r] = "listBuckets"]
  /\ Goto(r, "listBuckets")
  /\ UNCHANGED <<input, calls, err, storageVars, computeVars>>

\* await ListBuckets, then the list of names; the catch block is empty: on
\* a failure the handler returns and nothing is ever sent.
ListBucketsStep(r) ==
  /\ pc[r] = "listBuckets"
  /\ \E o \in ListBucketsOutcomes :
       /\ Issue(r, Call("ListBuckets", <<>>, <<>>, o))
       /\ IF o = "ok"
            THEN Send(r, [Response(200, "", "") EXCEPT
                            !.buckets = { n \in ProviderNames :
                                            buckets[n].exists }])
            ELSE pc' = [pc EXCEPT ![r] = "unanswered"] /\ UNCHANGED resp
  /\ UNCHANGED <<kind, input, err, storageVars, computeVars>>

-----------------------------------------------------------------------------
(* POST /api/lightsail/instances *)

\* The validation without the zone check.
InstanceValidation_NoZoneCheck(b) ==
  IF ~Truthy(b.instanceName) \/ ~Truthy(b.blueprintId)
     \/ ~Truthy(b.bundleId) \/ ~Truthy(b.availabilityZone)
  THEN "FaltanParametros"
  ELSE ""

\* The two checks made before any remote call; "" when the body passes.
InstanceValidation(b) ==
  IF ~Truthy(b.instanceName) \/ ~Truthy(b.blueprintId)
     \/ ~Truthy(b.bundleId) \/ ~Truthy(b.availabilityZone)
  THEN "FaltanParametros"
  ELSE IF ~StartsWith(b.availabilityZone.val, LightsailRegion)
       THEN "ZonaFueraDeRegion"
       ELSE ""

ProvisionInstanceStart(r, b) ==
  /\ Arrives(r)
  /\ kind' = [kind EXCEPT ![r] = "provisionInstance"]
  /\ input' = [input EXCEPT ![r] = b]
  /\ IF InstanceValidation(b) # ""
       THEN Send(r, Response(400, "", InstanceValidation(b)))
       ELSE Goto(r, "getInstance")
  /\ UNCHANGED <<calls, err, storageVars, computeVars>>

\* GetInstance whose only abort is an unexpected error: a found instance
\* goes on like a missing one.
GetInstanceStep_FoundGoesOn(r) ==
  /\ pc[r] = "getInstance"
  /\ \E o \in GetInstanceOutcomes(input[r].instanceName.val) :
       /\ Issue(r, Call("GetInstance", input[r].instanceName.val, <<>>, o))
       /\ IF o \in {"ok", "NotFoundException", "DoesNotExist"}
            THEN /\ uuids' = uuids + 1
                 /\ kpName' = [kpName EXCEPT ![r] = KeyPairName(uuids')]
                 /\ Goto(r, "createKeyPair")
                 /\ UNCHANGED err
            ELSE /\ err' = [err EXCEPT ![r] = o]
                 /\ Send(r, Response(500, o, "ErrorAlVerificar"))
                 /\ UNCHANGED <<kpName, uuids>>
  /\ UNCHANGED <<kind, input, storageVars, instances, keyPairs, log, privKey>>

\* GetInstance where only NotFoundException counts as not found.
GetInstanceStep_OnlyNotFoundException(r) ==
  /\ pc[r] = "getInstance"
  /\ \E o \in GetInstanceOutcomes(input[r].instanceName.val) :
       /\ Issue(r, Call("GetInstance", input[r].instanceName.val, <<>>, o))
       /\ IF o = "ok"
            THEN /\ Send(r, Response(409, "InstanceAlreadyExists", "YaExiste"))
                 /\ UNCHANGED <<err, kpName, uuids>>
            ELSE IF o = "NotFoundException"
                 THEN /\ uuids' = uuids + 1
                      /\ kpName' = [kpName EXCEPT ![r] = KeyPairName(uuids')]
                      /\ Goto(r, "createKeyPair")
                      /\ UNCHANGED err
                 ELSE /\ err' = [err EXCEPT ![r] = o]
                      /\ Send(r, Response(500, o, "ErrorAlVerificar"))
                      /\ UNCHANGED <<kpName, uuids>>
  /\ UNCHANGED <<kind, input, storageVars, instances, keyPairs, log, privKey>>

\* await GetInstance: found is 409; NotFoundException and DoesNotExist go on
\* (the key pair's name is made from a new uuid); the rest is a 500.
GetInstanceStep(r) ==
  /\ pc[r] = "getInstance"
  /\ \E o \in GetInstanceOutcomes(input[r].instanceName.val) :
       /\ Issue(r, Call("GetInstance", input[r].instanceName.val, <<>>, o))
       /\ IF o = "ok"
            THEN /\ Send(r, Response(409, "InstanceAlreadyExists", "YaExiste"))
                 /\ UNCHANGED <<err, kpName, uuids>>
            ELSE IF o \in {"NotFoundException", "DoesNotExist"}
                 THEN /\ uuids' = uuids + 1
                      /\ kpName' = [kpName EXCEPT ![r] = KeyPairName(uuids')]
                      /\ Goto(r, "createKeyPair")
                      /\ UNCHANGED err
                 ELSE /\ err' = [err EXCEPT ![r] = o]
                      /\ Send(r, Response(500, o, "ErrorAlVerificar"))
                      /\ UNCHANGED <<kpName, uuids>>
  /\ UNCHANGED <<kind, input, storageVars, instances, keyPairs, log, privKey>>

\* The fields of a CreateKeyPair result that carry key material.
KeyFields(keyPairData) ==
  { f \in {"privateKey", "privateKeyBase64"} : Truthy(keyPairData[f]) }

\* CreateKeyPair without the check that a private key was returned.
CreateKeyPairStep_NoKeyCheck(r) ==
  /\ pc[r] = "createKeyPair"
  /\ \E o \in CreateKeyPairOutcomes(kpName[r]) :
       /\ IF o = "ok"
            THEN \E keyPairData \in KeyPairData(kpName[r]) :
                   LET privateKey == Or(keyPairData.privateKey,
                                        keyPairData.privateKeyBase64) IN
                   /\ Issue(r, Call("CreateKeyPair", kpName[r],
                                     KeyFields(keyPairData), o))
                   /\ keyPairs' = keyPairs \cup {kpName[r]}
                   /\ privKey' = [privKey EXCEPT ![r] = privateKey]
                   /\ log' = log \cup
                        { k.val : k \in { x \in { keyPairData.privateKey,
                                                 keyPairData.privateKeyBase64 } :
                                           Truthy(x) } }
                   /\ Goto(r, "createInstances")
                   /\ UNCHANGED err
            ELSE /\ Issue(r, Call("CreateKeyPair", kpName[r], {}, o))
                 /\ err' = [err EXCEPT ![r] = o]
                 /\ Send(r, Response(500, o, "ErrorAlCrearClave"))
                 /\ UNCHANGED <<keyPairs, privKey, log>>
  /\ UNCHANGED <<kind, input, storageVars, instances, uuids, kpName>>

\* await CreateKeyPair: the private key is read from privateKey or
\* privateKeyBase64, the whole result is logged; no key is a 500.
CreateKeyPairStep(r) ==
  /\ pc[r] = "createKeyPair"
  /\ \E o \in CreateKeyPairOutcomes(kpName[r]) :
       /\ IF o = "ok"
            THEN \E keyPairData \in KeyPairData(kpName[r]) :
                   LET privateKey == Or(keyPairData.privateKey,
                                        keyPairData.privateKeyBase64) IN
                   /\ Issue(r, Call("CreateKeyPair", kpName[r],
                                     KeyFields(keyPairData), o))
                   /\ keyPairs' = keyPairs \cup {kpName[r]}
                   /\ privKey' = [privKey EXCEPT ![r] = privateKey]
                   /\ log' = log \cup
                        { k.val : k \in { x \in { keyPairData.privateKey,
                                                 keyPairData.privateKeyBase64 } :
                                           Truthy(x) } }
                   /\ IF ~Truthy(privateKey)
                        THEN Send(r, Response(500, "PrivateKeyMissingInResponse",
                                              "SinClavePrivada"))
                        ELSE Goto(r, "createInstances")
                   /\ UNCHANGED err
            ELSE /\ Issue(r, Call("CreateKeyPair", kpName[r], {}, o))
                 /\ err' = [err EXCEPT ![r] = o]
                 /\ Send(r, Response(500, o, "ErrorAlCrearClave"))
                 /\ UNCHANGED <<keyPairs, privKey, log>>
  /\ UNCHANGED <<kind, input, storageVars, instances, uuids, kpName>>

\* let userMessage, chosen by error.name
CreateInstanceMessage(name) ==
  IF name = "InvalidInputException" THEN "DatosInvalidos"
  ELSE IF name = "ServiceException" THEN "ErrorDelServicio"
  ELSE "ErrorInesperado"

\* CreateInstances whose failure is followed by the removal of the key pair.
CreateInstancesStep_DeletesKeyPair(r) ==
  /\ pc[r] = "createInstances"
  /\ \E o \in CreateInstancesOutcomes(input[r].instanceName.val) :
       /\ IF o = "ok"
            THEN /\ Issue(r, Call("CreateInstances",
                                   input[r].instanceName.val, kpName[r], o))
                 /\ instances' = instances \cup {input[r].instanceName.val}
                 /\ log' = log \cup {privKey[r].val}
                 /\ Send(r, [Response(201, "", "creada") EXCEPT
                               !.keyPairName = Val(kpName[r]),
                               !.privateKey = privKey[r]])
                 /\ UNCHANGED <<err, keyPairs>>
            ELSE /\ calls' = [calls EXCEPT ![r] =
                      @ \o <<Call("CreateInstances", input[r].instanceName.val,
                                  kpName[r], o),
                             Call("DeleteKeyPair", kpName[r], <<>>, "ok")>>]
                 /\ keyPairs' = keyPairs \ {kpName[r]}
                 /\ err' = [err EXCEPT ![r] = o]
                 /\ Send(r, Response(500, o, CreateInstanceMessage(o)))
                 /\ UNCHANGED <<instances, log>>
  /\ UNCHANGED <<kind, input, storageVars, uuids, kpName, privKey>>

\* await CreateInstances with the key pair's name, then the 201 carrying the
\* key pair's name and the private key; the final response is logged.
CreateInstancesStep(r) ==
  /\ pc[r] = "createInstances"
  /\ \E o \in CreateInstancesOutcomes(input[r].instanceName.val) :
       /\ Issue(r, Call("CreateInstances", input[r].instanceName.val,
                         kpName[r], o))
       /\ IF o = "ok"
            THEN /\ instances' = instances \cup {input[r].instanceName.val}
                 /\ log' = log \cup {privKey[r].val}
                 /\ Send(r, [Response(201, "", "creada") EXCEPT
                               !.keyPairName = Val(kpName[r]),
                               !.privateKey = privKey[r]])
                 /\ UNCHANGED err
            ELSE /\ err' = [err EXCEPT ![r] = o]
                 /\ Send(r, Response(500, o, CreateInstanceMessage(o)))
                 /\ UNCHANGED <<instances, log>>
  /\ UNCHANGED <<kind, input, storageVars, keyPairs, uuids, kpName, privKey>>

-----------------------------------------------------------------------------

Next ==
  \E r \in Req :
    \/ \E n \in BucketNameInputs : ProvisionBucketStart(r, n)
    \/ HeadBucketStep(r)
    \/ CreateBucketStep(r)
    \/ PutPublicAccessBlockStep(r)
    \/ PutBucketPolicyStep(r)
    \/ PutBucketWebsiteStep(r)
    \/ PutBucketCorsStep(r)
    \/ PutIndexStep(r)
    \/ PutErrorStep(r)
    \/ RollbackStep(r)
    \/ \E n \in ProviderNames : DeprovisionBucketStart(r, n)
    \/ GetBucketLocationStep(r)
    \/ ListObjectsStep(r)
    \/ DeleteBucketStep(r)
    \/ ListBucketsStart(r)
    \/ ListBucketsStep(r)
    \/ \E b \in InstanceInputs : ProvisionInstanceStart(r, b)
    \/ GetInstanceStep(r)
    \/ CreateKeyPairStep(r)
    \/ CreateInstancesStep(r)

NextBuckets ==
  \E r \in Req :
    \/ \E n \in BucketNameInputs : ProvisionBucketStart(r, n)
    \/ HeadBucketStep(r)
    \/ CreateBucketStep(r)
    \/ PutPublicAccessBlockStep(r)
    \/ PutBucketPolicyStep(r)
    \/ PutBucketWebsiteStep(r)
    \/ PutBucketCorsStep(r)
    \/ PutIndexStep(r)
    \/ PutErrorStep(r)
    \/ RollbackStep(r)
    \/ \E n \in ProviderNames : DeprovisionBucketStart(r, n)
    \/ GetBucketLocationStep(r)
    \/ ListObjectsStep(r)
    \/ DeleteBucketStep(r)
    \/ ListBucketsStart(r)
    \/ ListBucketsStep(r)

NextInstances ==
  \E r \in Req :
    \/ \E b \in InstanceInputs : ProvisionInstanceStart(r, b)
    \/ GetInstanceStep(r)
    \/ CreateKeyPairStep(r)
    \/ CreateInstancesStep(r)

\* The whole server.
Spec == Init /\ [][Next]_vars

\* The bucket endpoints and the instance endpoint share no state: each is
\* checked with requests of its own kind only, the other provider left as
\* it starts.
InitBuckets == Init /\ instances = {}

SpecBuckets == InitBuckets /\ [][NextBuckets]_vars

InitInstances == Init /\ \A n \in ProviderNames : ~buckets[n].exists

SpecInstances == InitInstances /\ [][NextInstances]_vars

-----------------------------------------------------------------------------
(* What the requests did, read from calls and resp *)

IsProvision(r) == kind[r] = "provisionBucket"
IsDeprovision(r) == kind[r] = "deprovisionBucket"
IsInstance(r) == kind[r] = "provisionInstance"
IsList(r) == kind[r] = "listBuckets"
Done(r) == pc[r] = "done"

\* The positions in calls[r] of the calls of operation op.
CallsOf(r, op) == { i \in DOMAIN calls[r] : calls[r][i].op = op }

\* r issued a call of operation op that ended with `result`.
HasCall(r, op, result) ==
  \E i \in CallsOf(r, op) : calls[r][i].result = result

\* The operations of POST /api/buckets that follow CreateBucket.
PostCreateOps ==
  {"PutPublicAccessBlock", "PutBucketPolicy", "PutBucketWebsite",
   "PutBucketCors", "PutObject:index.html", "PutObject:error.html"}

\* Public-access block off, policy, website, CORS and the two pages applied.
FullyConfigured(b) ==
  /\ b.pab /\ b.policy /\ b.website /\ b.cors
  /\ {"index.html", "error.html"} \subseteq b.objects

-----------------------------------------------------------------------------
(* C1 *)

\* C1: when a step after CreateBucket fails, the finished request has
\* issued exactly one DeleteBucket, right after the failed step and as its
\* last call, and its response is a 500 whose errorType is the name of the
\* failed step's error, whatever the DeleteBucket call returned.
C1_RollbackOnceOriginalKind ==
  \A r \in Req :
    IsProvision(r) /\ Done(r) =>
      \A i \in DOMAIN calls[r] :
        calls[r][i].op \in PostCreateOps /\ calls[r][i].result # "ok" =>
          /\ CallsOf(r, "DeleteBucket") = {i + 1}
          /\ Len(calls[r]) = i + 1
          /\ resp[r].status = 500
          /\ resp[r].errorType = calls[r][i].result

\* A request whose second upload failed and whose rollback failed with
\* another error.
C1_Witness ==
  \E r \in Req :
    /\ IsProvision(r) /\ Done(r)
    /\ HasCall(r, "PutObject:error.html", "AccessDenied")
    /\ HasCall(r, "DeleteBucket", "BucketNotEmpty")

-----------------------------------------------------------------------------
(* C2 *)

\* C2: once a provisioning request is answered, the bucket it created is
\* fully configured or gone.
C2_ConfiguredOrGone ==
  \A r \in Req :
    IsProvision(r) /\ Done(r) =>
      \A n \in ProviderNames :
        buckets[n].exists /\ buckets[n].owner = r =>
          FullyConfigured(buckets[n])

-----------------------------------------------------------------------------
(* C3 *)

\* The bucket-name pattern as the data model words it: 3 to 63 characters,
\* lowercase letters, digits and hyphens, no hyphen first or last, no two
\* dots in a row.
MatchesNamePattern(s) ==
  /\ Len(s) \in MinNameLen..MaxNameLen
  /\ \A i \in DOMAIN s : s[i] \in Lower \cup Digit \cup {"-"}
  /\ s[1] # "-" /\ s[Len(s)] # "-"
  /\ \A i \in DOMAIN s : i < Len(s) => ~(s[i] = "." /\ s[i + 1] = ".")

\* C3: a provisioning request whose name does not match the pattern is
\* answered 400 InvalidNameFormat on arrival and has issued no remote call.
C3_InvalidNameNoCalls ==
  \A r \in Req :
    IsProvision(r) /\ ~MatchesNamePattern(input[r]) =>
      /\ Done(r)
      /\ resp[r].status = 400
      /\ resp[r].errorType = "InvalidNameFormat"
      /\ calls[r] = <<>>

\* A name with a trailing hyphen was refused while another request ran.
C3_Witness ==
  \E r \in Req :
    /\ IsProvision(r) /\ Done(r)
    /\ input[r] = <<"a","b","-">>
    /\ \E q \in Req : q # r /\ calls[q] # <<>>

-----------------------------------------------------------------------------
(* C4 *)

\* C4: a provisioning request with a valid name whose bucket existed when
\* HeadBucket ran is answered 409 BucketAlreadyExists and has issued that
\* one call only.
C4_ExistingIsConflict ==
  \A r \in Req :
    IsProvision(r) /\ Done(r) /\ calls[r] # <<>> /\ calls[r][1].existed =>
      /\ resp[r].status = 409
      /\ resp[r].errorType = "BucketAlreadyExists"
      /\ Len(calls[r]) = 1


-----------------------------------------------------------------------------
(* C5 *)

\* Two provisioning requests for one name whose probes both answered
\* NotFound in the same life of the name (no delete between the probes).
Racing(r1, r2) ==
  /\ r1 # r2 /\ IsProvision(r1) /\ IsProvision(r2)
  /\ input[r1] = input[r2]
  /\ HasCall(r1, "HeadBucket", "NotFound")
  /\ HasCall(r2, "HeadBucket", "NotFound")
  /\ calls[r1][1].gen = calls[r2][1].gen

\* The life of the name (its number of deletions) in which r's CreateBucket
\* succeeded.
CreatedIn(r) == { calls[r][i].gen : i \in { j \in CallsOf(r, "CreateBucket") :
                                            calls[r][j].result = "ok" } }

\* r's CreateBucket was rejected because the name exists.
Rejected(r) ==
  \/ HasCall(r, "CreateBucket", "BucketAlreadyExists")
  \/ HasCall(r, "CreateBucket", "BucketAlreadyOwnedByYou")

\* C5 as stated: of two racing requests at most one CreateBucket succeeds.
C5_AtMostOneCreate ==
  \A r1, r2 \in Req :
    Racing(r1, r2) => CreatedIn(r1) = {} \/ CreatedIn(r2) = {}

\* C5 amended: of two racing requests both CreateBucket calls succeed only
\* when the bucket was deleted between them; a request whose CreateBucket
\* was rejected issues no configuration call and is answered 500.
C5_OneCreatePerBucketLife ==
  \A r1, r2 \in Req :
    Racing(r1, r2) =>
      /\ CreatedIn(r1) \cap CreatedIn(r2) = {}
      /\ Rejected(r1) =>
           /\ \A i \in DOMAIN calls[r1] : calls[r1][i].op \notin PostCreateOps
           /\ Done(r1) => resp[r1].status = 500

\* Two racing requests: one created the bucket, the other was rejected and
\* answered.
C5_Witness ==
  \E r1, r2 \in Req :
    /\ Racing(r1, r2)
    /\ CreatedIn(r1) # {}
    /\ Rejected(r2) /\ Done(r2)

-----------------------------------------------------------------------------
(* C6 *)

\* The ListObjectsV2 call of r returned one or more objects.
ListedObjects(r) ==
  \E i \in CallsOf(r, "ListObjectsV2") :
    calls[r][i].result = "ok" /\ ContentsNotEmpty(calls[r][i].arg)

C6_Answered ==
  \A r \in Req :
    IsDeprovision(r) /\ ListedObjects(r) =>
      /\ Done(r)
      /\ resp[r].status = 400
      /\ resp[r].errorType = "BucketNotEmpty"
      /\ CallsOf(r, "DeleteBucket") = {}

C6_Unchanged ==
  \A r \in Req :
    pc[r] = "list" /\ ListedObjects(r)' => buckets' = buckets

\* C6: a deprovisioning request whose listing returned one or more objects
\* is answered 400 BucketNotEmpty in the same step, has issued no
\* DeleteBucket, and that step leaves every bucket and its objects as they
\* were.
C6_NotEmptyNoDelete == []C6_Answered /\ [][C6_Unchanged]_vars

\* A request was refused for a bucket that holds a file.
C6_Witness ==
  \E r \in Req :
    /\ IsDeprovision(r) /\ ListedObjects(r) /\ Done(r)
    /\ buckets[input[r]].objects # {}

-----------------------------------------------------------------------------
(* C7 *)

\* r is answered, its bucket existed when r began and was listed empty,
\* and every call r issued succeeded.
EmptyAllSucceeded(r) ==
  /\ IsDeprovision(r) /\ Done(r)
  /\ calls[r] # <<>> /\ calls[r][1].existed
  /\ \A i \in DOMAIN calls[r] : calls[r][i].result = "ok"
  /\ ~ListedObjects(r)

C7_Answered ==
  \A r \in Req :
    EmptyAllSucceeded(r) =>
      /\ resp[r].status = 200
      /\ [i \in DOMAIN calls[r] |-> calls[r][i].op]
           = <<"GetBucketLocation", "ListObjectsV2", "DeleteBucket">>

C7_Gone ==
  \A r \in Req :
    ~Done(r) /\ EmptyAllSucceeded(r)' => ~buckets'[input[r]].exists

\* C7: a deprovisioning request on an existing, empty bucket, all of whose
\* calls succeeded, is answered with success having issued one
\* ListObjectsV2 and then one DeleteBucket (after GetBucketLocation), and
\* the bucket does not exist when the answer is sent.
C7_ListThenDelete == []C7_Answered /\ [][C7_Gone]_vars

\* An empty bucket made before the run was deleted on request.
C7_Witness ==
  \E r \in Req :
    /\ EmptyAllSucceeded(r)
    /\ HasCall(r, "DeleteBucket", "ok")
    /\ resp[r].status = 200

-----------------------------------------------------------------------------
(* C8 *)

\* One of the four fields is absent from the body.
FieldAbsent(b) ==
  \/ ~b.instanceName.set \/ ~b.blueprintId.set
  \/ ~b.bundleId.set \/ ~b.availabilityZone.set

\* The zone is given and does not begin with the configured region.
ZoneOutsideRegion(b) ==
  /\ b.availabilityZone.set
  /\ \/ Len(b.availabilityZone.val) < Len(LightsailRegion)
     \/ \E i \in DOMAIN LightsailRegion :
          b.availabilityZone.val[i] # LightsailRegion[i]

\* C8: an instance request with a field absent, or with a zone outside the
\* configured region, is answered 400 on arrival and has issued no remote
\* call.
C8_InvalidBodyNoCalls ==
  \A r \in Req :
    IsInstance(r) /\ (FieldAbsent(input[r]) \/ ZoneOutsideRegion(input[r])) =>
      /\ Done(r)
      /\ resp[r].status = 400
      /\ calls[r] = <<>>

\* Two requests were refused: one without its bundle, one for a zone that
\* holds the region's name but does not begin with it.
C8_Witness ==
  \E r1, r2 \in Req :
    /\ IsInstance(r1) /\ Done(r1) /\ ~input[r1].bundleId.set
    /\ IsInstance(r2) /\ Done(r2)
    /\ input[r2].availabilityZone = Val(<<"x">> \o LightsailRegion)
    /\ resp[r2].error = "ZonaFueraDeRegion"

-----------------------------------------------------------------------------
(* C9 *)

\* C9: an instance request whose GetInstance call succeeded is answered
\* 409 InstanceAlreadyExists in the same step and has issued that call
\* only: no CreateKeyPair, no CreateInstances.
C9_FoundIsConflict ==
  \A r \in Req :
    IsInstance(r) /\ HasCall(r, "GetInstance", "ok") =>
      /\ Done(r)
      /\ resp[r].status = 409
      /\ resp[r].errorType = "InstanceAlreadyExists"
      /\ Len(calls[r]) = 1
      /\ CallsOf(r, "CreateKeyPair") = {}
      /\ CallsOf(r, "CreateInstances") = {}

\* A request was refused for the name of an instance another request of
\* the run had created.
C9_Witness ==
  \E r, q \in Req :
    /\ IsInstance(r) /\ HasCall(r, "GetInstance", "ok") /\ Done(r)
    /\ q # r /\ resp[q].status = 201
    /\ input[q].instanceName = input[r].instanceName

-----------------------------------------------------------------------------
(* C10 *)

\* The requests that have made their key pair's name.
Named == { r \in Req : IsInstance(r) /\ kpName[r] # <<>> }

\* C10: a 201 for an instance request carries a non-empty private key, that
\* of the key pair, and the key pair's name that was the one sent in the
\* request's CreateKeyPair call and in its CreateInstances call; the names
\* made by different requests are distinct.
C10_KeyPairInResponse ==
  /\ \A r \in Req :
       IsInstance(r) /\ resp[r].status = 201 =>
         /\ Truthy(resp[r].privateKey)
         /\ resp[r].keyPairName.set
         /\ resp[r].privateKey.val \in { Pem(resp[r].keyPairName.val),
                                         B64(resp[r].keyPairName.val) }
         /\ \E i \in CallsOf(r, "CreateKeyPair") :
              /\ calls[r][i].target = resp[r].keyPairName.val
              /\ calls[r][i].result = "ok"
         /\ \E i \in CallsOf(r, "CreateInstances") :
              /\ calls[r][i].arg = resp[r].keyPairName.val
              /\ calls[r][i].result = "ok"
         /\ \A i \in CallsOf(r, "CreateKeyPair") \cup CallsOf(r, "CreateInstances") :
              resp[r].keyPairName.val
                = (IF calls[r][i].op = "CreateKeyPair"
                   THEN calls[r][i].target ELSE calls[r][i].arg)
  /\ \A r1, r2 \in Named : r1 # r2 => kpName[r1] # kpName[r2]

\* Two requests were answered 201, one with the key read from the fallback
\* field.
C10_Witness ==
  \E r1, r2 \in Req :
    /\ r1 # r2
    /\ resp[r1].status = 201 /\ resp[r2].status = 201
    /\ resp[r1].privateKey = Val(B64(kpName[r1]))

-----------------------------------------------------------------------------
(* C11 *)

\* C11: the private key material of a key pair is written to no sink but
\* the body of the 201: the process log holds none of it.
C11_KeyOnlyInResponse == log = {}

-----------------------------------------------------------------------------
(* C12 *)

\* The handler of r has returned: it sent a response, or ended without.
Returned(r) == pc[r] \in {"done", "unanswered"}

\* C12: a listing request whose ListBuckets call failed is answered 500
\* by the time its handler has returned (nothing runs for it after that).
C12_FailedListAnswered ==
  \A r \in Req :
    IsList(r) /\ Returned(r) /\ ~HasCall(r, "ListBuckets", "ok") =>
      resp[r].status = 500
-----------------------------------------------------------------------------
(* C13 *)

\* r's HeadBucket failed with a cause other than NotFound.
ProbeFailed(r) ==
  \E i \in CallsOf(r, "HeadBucket") :
    calls[r][i].result \notin {"ok", "NotFound"}

\* C13: a provisioning request issues DeleteBucket only after a CreateBucket
\* of its own, and one whose probe failed with a cause other than NotFound
\* has issued the probe and no other call.
C13_DeleteOnlyAfterCreate ==
  \A r \in Req :
    IsProvision(r) =>
      /\ \A i \in CallsOf(r, "DeleteBucket") :
           \E j \in CallsOf(r, "CreateBucket") : j < i
      /\ ProbeFailed(r) => Len(calls[r]) = 1

-----------------------------------------------------------------------------
(* C14 *)

\* Request r issues a remote call in this step.
Calls(r) == calls'[r] # calls[r]

\* The bucket of name n is removed from the provider in this step.
Removed(n) == buckets[n].exists /\ ~buckets'[n].exists

\* C14: no step of a provisioning request whose probe reported NotFound
\* removes a bucket that another request created.
C14_RollbackSparesOthersBucket ==
  [][\A r \in Req : \A n \in ProviderNames :
       /\ IsProvision(r) /\ HasCall(r, "HeadBucket", "NotFound")
       /\ Calls(r) /\ Removed(n)
       => buckets[n].owner \notin Req \ {r}]_vars
-----------------------------------------------------------------------------
(* C15 *)

\* The remote calls of POST /api/buckets in the order of the handler.
ProvisionOrder ==
  <<"HeadBucket", "CreateBucket", "PutPublicAccessBlock", "PutBucketPolicy",
    "PutBucketWebsite", "PutBucketCors", "PutObject:index.html",
    "PutObject:error.html">>

\* The call let the handler go on: the probe by NotFound, the others by ok.
Succeeded(c) ==
  IF c.op = "HeadBucket" THEN c.result = "NotFound" ELSE c.result = "ok"

\* The i-th call of r is the i-th of the order and all before it succeeded.
InOrder(r, i) ==
  /\ i <= Len(ProvisionOrder)
  /\ calls[r][i].op = ProvisionOrder[i]
  /\ \A j \in 1..(i - 1) :
       calls[r][j].op = ProvisionOrder[j] /\ Succeeded(calls[r][j])

\* C15: the calls of a provisioning request other than its rollback delete
\* follow the fixed order, each once and only after all earlier ones
\* succeeded, and the 201 is sent only after all eight succeeded.
C15_FixedOrder ==
  \A r \in Req :
    IsProvision(r) =>
      /\ \A i \in DOMAIN calls[r] :
           calls[r][i].op # "DeleteBucket" => InOrder(r, i)
      /\ resp[r].status = 201 =>
           /\ Len(calls[r]) = Len(ProvisionOrder)
           /\ \A i \in DOMAIN calls[r] :
                InOrder(r, i) /\ Succeeded(calls[r][i])

\* A request answered 201 after its eight calls.
C15_Witness ==
  \E r \in Req :
    IsProvision(r) /\ resp[r].status = 201
      /\ Len(calls[r]) = Len(ProvisionOrder)

-----------------------------------------------------------------------------
(* C16 *)

\* The calls of r from CreateBucket onward that failed.
FailedFromCreate(r) ==
  { i \in DOMAIN calls[r] :
      /\ calls[r][i].op \in {"CreateBucket"} \cup PostCreateOps
      /\ calls[r][i].result # "ok" }

\* After the failed call i, r is answered 500 with no further call.
NoRollback(r, i) ==
  /\ Len(calls[r]) = i
  /\ Done(r) /\ resp[r].status = 500
  /\ resp[r].errorType = "BucketAlreadyExists"

\* After the failed call i, r's next call is DeleteBucket (issued or due).
RollbackIssued(r, i) ==
  \/ Len(calls[r]) = i /\ pc[r] = "rollback"
  \/ Len(calls[r]) = i + 1 /\ calls[r][i + 1].op = "DeleteBucket"

C16_GuardOutcome ==
  \A r \in Req :
    IsProvision(r) =>
      \A i \in FailedFromCreate(r) :
        IF calls[r][i].result = "BucketAlreadyExists"
          THEN NoRollback(r, i)
          ELSE RollbackIssued(r, i)

\* The step in which r's call fails with BucketAlreadyExists changes no
\* bucket.
C16_LeftAsIs ==
  \A r \in Req :
    /\ IsProvision(r) /\ Calls(r)
    /\ calls'[r][Len(calls'[r])].result = "BucketAlreadyExists"
    => buckets' = buckets /\ deleted' = deleted

\* C16: a failure with BucketAlreadyExists from CreateBucket onward is
\* answered 500 with no DeleteBucket and the bucket left as it is; after a
\* failure of any other kind there the DeleteBucket is issued.
C16_RollbackUnlessAlreadyExists ==
  []C16_GuardOutcome /\ [][C16_LeftAsIs]_vars

\* A request whose CreateBucket failed with BucketAlreadyExists, answered,
\* beside a bucket that is still there.
C16_Witness ==
  \E r \in Req :
    /\ IsProvision(r) /\ Done(r)
    /\ HasCall(r, "CreateBucket", "BucketAlreadyExists")
    /\ CallsOf(r, "DeleteBucket") = {}
    /\ buckets[input[r]].exists
-----------------------------------------------------------------------------
(* C17 *)

\* The kinds of a GetInstance failure that mean the instance is not there.
NotFoundKinds == {"NotFoundException", "DoesNotExist"}

\* r's probe failed with a kind outside NotFoundKinds.
InstanceProbeFailed(r) ==
  calls[r] # <<>> /\ calls[r][1].result \notin {"ok"} \cup NotFoundKinds

\* r's probe reported a not-found kind.
InstanceNotFound(r) ==
  calls[r] # <<>> /\ calls[r][1].result \in NotFoundKinds

\* C17: the first call of an instance request is the probe; a probe failure
\* of a kind other than NotFoundException and DoesNotExist ends the request
\* with the 500 verification error carrying that kind and no further call;
\* after a not-found kind the next call is CreateKeyPair.
C17_ProbeFailureStops ==
  \A r \in Req :
    IsInstance(r) /\ calls[r] # <<>> =>
      /\ calls[r][1].op = "GetInstance"
      /\ InstanceProbeFailed(r) =>
           /\ Done(r) /\ Len(calls[r]) = 1
           /\ resp[r].status = 500
           /\ resp[r].error = "ErrorAlVerificar"
           /\ resp[r].errorType = calls[r][1].result
      /\ InstanceNotFound(r) =>
           \/ Len(calls[r]) = 1 /\ pc[r] = "createKeyPair"
           \/ Len(calls[r]) >= 2 /\ calls[r][2].op = "CreateKeyPair"

\* One request stopped by a failed probe, another gone on to CreateKeyPair
\* after DoesNotExist.
C17_Witness ==
  \E r1, r2 \in Req :
    /\ IsInstance(r1) /\ InstanceProbeFailed(r1) /\ Done(r1)
    /\ IsInstance(r2) /\ HasCall(r2, "GetInstance", "DoesNotExist")
    /\ CallsOf(r2, "CreateKeyPair") # {}

-----------------------------------------------------------------------------
(* C18 *)

\* C18: a CreateInstances call is preceded by a successful CreateKeyPair of
\* the same request, for the key pair it names, whose result carried the
\* key in privateKey or privateKeyBase64; a successful CreateKeyPair whose
\* result carried the key in neither ends the request with
\* PrivateKeyMissingInResponse and no CreateInstances call.
C18_InstancesOnlyWithKey ==
  \A r \in Req :
    IsInstance(r) =>
      /\ \A i \in CallsOf(r, "CreateInstances") :
           \E j \in CallsOf(r, "CreateKeyPair") :
             /\ j < i
             /\ calls[r][j].result = "ok"
             /\ calls[r][j].arg # {}
             /\ calls[r][j].target = calls[r][i].arg
      /\ \A j \in CallsOf(r, "CreateKeyPair") :
           calls[r][j].result = "ok" /\ calls[r][j].arg = {} =>
             /\ Done(r) /\ resp[r].status = 500
             /\ resp[r].errorType = "PrivateKeyMissingInResponse"
             /\ CallsOf(r, "CreateInstances") = {}

\* One request that reached CreateInstances with a key from the fallback
\* field alone, another stopped because its result carried no key.
C18_Witness ==
  \E r1, r2 \in Req :
    /\ IsInstance(r1) /\ CallsOf(r1, "CreateInstances") # {}
    /\ \E j \in CallsOf(r1, "CreateKeyPair") :
         calls[r1][j].arg = {"privateKeyBase64"}
    /\ IsInstance(r2) /\ Done(r2)
    /\ \E j \in CallsOf(r2, "CreateKeyPair") :
         calls[r2][j].result = "ok" /\ calls[r2][j].arg = {}

-----------------------------------------------------------------------------
(* C19 *)

\* r failed after its CreateKeyPair succeeded.
FailedAfterKeyPair(r) ==
  /\ IsInstance(r) /\ Done(r) /\ resp[r].status # 201
  /\ HasCall(r, "CreateKeyPair", "ok")

\* The last call of r is its CreateKeyPair, or its failed CreateInstances.
EndsAtFailure(r) ==
  LET last == calls[r][Len(calls[r])] IN
    \/ last.op = "CreateKeyPair" /\ last.arg = {}
    \/ last.op = "CreateInstances" /\ last.result # "ok"

\* C19: when an instance request fails after its CreateKeyPair succeeded,
\* the key pair is still registered, the failing call is the request's last
\* call, and neither its response nor any other carries the private key.
C19_NoCompensation ==
  \A r \in Req :
    FailedAfterKeyPair(r) =>
      /\ kpName[r] \in keyPairs
      /\ EndsAtFailure(r)
      /\ ~resp[r].privateKey.set /\ ~resp[r].keyPairName.set
      /\ \A q \in Req :
           resp[q].privateKey.set =>
             resp[q].privateKey.val \notin {Pem(kpName[r]), B64(kpName[r])}

\* A request whose CreateInstances failed after its key pair was created
\* with a private key.
C19_Witness ==
  \E r \in Req :
    /\ FailedAfterKeyPair(r)
    /\ Truthy(privKey[r])
    /\ calls[r][Len(calls[r])].op = "CreateInstances"
    /\ kpName[r] \in keyPairs
-----------------------------------------------------------------------------
(* C20 *)

\* p was answered 201 for the name n and the bucket its CreateBucket made
\* has not been deleted since.
Provisioned(p, n) ==
  /\ IsProvision(p) /\ input[p] = n
  /\ resp[p].status = 201
  /\ buckets[n].exists
  /\ CreatedIn(p) = {deleted[n]}

\* The bucket of a provisioned name holds the two pages.
C20_PagesPresent ==
  \A p \in Req :
    IsProvision(p) /\ Provisioned(p, input[p]) =>
      {"index.html", "error.html"} \subseteq buckets[input[p]].objects

\* d's ListObjectsV2 is served in this step.
ListServed(d) ==
  /\ IsDeprovision(d) /\ pc[d] = "list" /\ Calls(d)
  /\ calls'[d][Len(calls'[d])].result = "ok"

\* A listing served for a provisioned name ends d with the 400
\* BucketNotEmpty, no DeleteBucket and the buckets as they were.
C20_ListStep ==
  \A p, d \in Req :
    ListServed(d) /\ Provisioned(p, input[d]) =>
      /\ pc'[d] = "done"
      /\ resp'[d].status = 400
      /\ resp'[d].errorType = "BucketNotEmpty"
      /\ \A i \in DOMAIN calls'[d] : calls'[d][i].op # "DeleteBucket"
      /\ buckets' = buckets /\ buckets'[input[d]].exists

\* C20: once a name is provisioned (201) and its bucket untouched since, a
\* deprovisioning of that name whose location and listing calls are served
\* is answered 400 BucketNotEmpty, issues no DeleteBucket, and the bucket
\* is still there.
C20_NoRoundTrip ==
  []C20_PagesPresent /\ [][C20_ListStep]_vars

\* A deprovisioning answered BucketNotEmpty for a provisioned name, having
\* listed the two pages.
C20_Witness ==
  \E p, d \in Req :
    /\ IsDeprovision(d) /\ Done(d)
    /\ Provisioned(p, input[d])
    /\ resp[d].errorType = "BucketNotEmpty"
    /\ Len(calls[d]) = 2
    /\ calls[d][2].arg = Val({"index.html", "error.html"})

====
